---- MODULE Spec2Model ----
(***************************************************************************)
(* Model of tasklib/lazy.py: LazyUUIDTask (a lazy reference to one task,   *)
(* named by its UUID) and LazyUUIDTaskSet (a lazy set of task UUIDs that   *)
(* turns itself into a TaskQuerySet in place).  The backend (tw.tasks.get  *)
(* and tw.tasks.filter) is an external collaborator: each call either      *)
(* raises or returns some record / query set.                              *)
(***************************************************************************)
EXTENDS Integers, Sequences, FiniteSets, TLC

\* ---------------------------------------------------------------- bounds
NumIds == 3        \* how many distinct UUIDs exist
MaxCalls == 2      \* cap on the number of tw.tasks.get calls counted per reference
MaxOther == 2      \* longest plain iterable handed to a set operation

Ids == 1..NumIds

\* ---------------------------------------------------------------- values
\* Python's None, and the absence of an exception.
None == [none |-> TRUE]
NoExc == "none"

\* Tagged Python values returned by the operations.
Val(t, v) == [t |-> t, v |-> v]
NoVal == Val("none", 0)

\* The element of a one-element set.  Only({F(x) : x \in {e}}) is F(e), with
\* e computed once.
Only(S) == CHOOSE x \in S : TRUE

\* A backend call made while an operation runs.
Call(fn, arg) == [fn |-> fn, arg |-> arg]

\* The Task records the backend may return: a mapping key -> value (items,
\* read with record[key]) and the properties the object has (attrs, read
\* with getattr).  A "full" record has every property, with values that
\* differ from the defaults of lazy.py; a bare one has none of them.
FullItems(u) == [k \in {"uuid", "description"} |-> IF k = "uuid" THEN u ELSE 0]
BareItems(u) == [k \in {"uuid"} |-> u]
FullAttrs == [completed |-> TRUE, modified |-> TRUE, saved |-> FALSE,
              _modified_fields |-> {"description"}]
BareAttrs == [k \in {} |-> FALSE]
MkRecord(u, full) == [items |-> IF full THEN FullItems(u) ELSE BareItems(u),
                      attrs |-> IF full THEN FullAttrs ELSE BareAttrs]
Records == {MkRecord(u, full) : u \in Ids, full \in BOOLEAN}

\* Some UUID other than u.
Foreign(u) == (u % NumIds) + 1

\* A dict-like value that has no 'uuid' key.
NoIdRecord == [items |-> [k \in {} |-> 0], attrs |-> BareAttrs]

\* The keys a caller asks a LazyUUIDTask for.
Keys == {"uuid", "description", "project"}

\* What tw.tasks.get(uuid=u) can do: raise, or return a record (the record
\* of that UUID, with or without the properties, or a record that carries
\* another UUID).
GetResponses(u) ==
    {[ok |-> FALSE, rec |-> None]} \cup
    {[ok |-> TRUE, rec |-> r] :
        r \in {MkRecord(u, TRUE), MkRecord(u, FALSE), MkRecord(Foreign(u), FALSE)}}

RefIds == {"a", "b"}

VARIABLES refs,        \* RefIds -> [uuid, content] : the LazyUUIDTask objects
          getCalls,    \* RefIds -> number of tw.tasks.get calls made for it
          lset,        \* the LazyUUIDTaskSet object: its class and its __dict__
          other,       \* the operand the caller hands to the set operations
          ret,         \* the last operation: what was called and what came out
          built,       \* the UUIDs, as listed, that lset was constructed from
          heap,        \* the Python set objects, by identity: their elements
          ptr,         \* which set object each name refers to
          threads,     \* the threads calling into lset: where each one stands
          lock         \* the lock the callers share, if they use one

vars == <<refs, getCalls, lset, other, ret, built, heap, ptr, threads, lock>>
refVars == <<refs, getCalls>>
setVars == <<lset, other, built>>
heapVars == <<heap, ptr>>
threadVars == <<threads, lock>>

\* The names that hold a set of UUIDs (the caller's collection, and _uuids of
\* the LazyUUIDTaskSets x, y and r) and the identities a set object can have.
PtrNames == {"built", "x", "y", "r"}
Null == "null"
ObjIds == PtrNames \cup {"tmp", "tmp2"}

\* The threads, a thread that is in no call, and the states of the lock.
Threads == {"t1", "t2"}
Idle == [pc |-> "idle", name |-> <<>>, query |-> <<>>, replacement |-> None,
         calls |-> <<>>, exc |-> NoExc, torn |-> FALSE]
NoLock == "off"
Unlocked == "free"

\* No set object is tracked, no thread is running.
InitHeapless == heap = [o \in ObjIds |-> {}] /\ ptr = [n \in PtrNames |-> Null]
InitThreadless == threads = [t \in Threads |-> Idle] /\ lock = NoLock

\* ------------------------------------------------------- LazyUUIDTask
\* __init__
LazyUUIDTask_init(uuid) == [uuid |-> uuid, content |-> None]

\* The outcome of a method: the object afterwards, the value returned, the
\* exception raised and the backend calls made.
Out(obj, val, exc, calls) == [obj |-> obj, val |-> val, exc |-> exc, calls |-> calls]

\* Mutants of refresh: one that drops the content when the fetch fails, one
\* that fetches only while nothing has been fetched yet.
LazyUUIDTask_refresh_clearing(t, resp) ==
    IF resp.ok
    THEN Out([t EXCEPT !.content = resp.rec], NoVal, NoExc, <<Call("get", t.uuid)>>)
    ELSE Out([t EXCEPT !.content = None], NoVal, "NotFound", <<Call("get", t.uuid)>>)

LazyUUIDTask_refresh_memoized(t, resp) ==
    IF t.content # None THEN Out(t, NoVal, NoExc, <<>>)
    ELSE IF resp.ok
         THEN Out([t EXCEPT !.content = resp.rec], NoVal, NoExc, <<Call("get", t.uuid)>>)
         ELSE Out(t, NoVal, "NotFound", <<Call("get", t.uuid)>>)

\* Mutant of refresh: the task is looked up with tasks.filter.
LazyUUIDTask_refresh_filtering(t, resp) ==
    IF resp.ok
    THEN Out([t EXCEPT !.content = resp.rec], NoVal, NoExc, <<Call("filter", <<t.uuid>>)>>)
    ELSE Out(t, NoVal, "NotFound", <<Call("filter", <<t.uuid>>)>>)

\* refresh: self.content = self._tw.tasks.get(uuid=self.uuid)
LazyUUIDTask_refresh(t, resp) ==
    IF resp.ok
    THEN Out([t EXCEPT !.content = resp.rec], NoVal, NoExc, <<Call("get", t.uuid)>>)
    ELSE Out(t, NoVal, "NotFound", <<Call("get", t.uuid)>>)

\* Mutant of __getitem__: once a record is fetched, 'uuid' is read from it.
LazyUUIDTask_getitem_stored(t, key, resp) ==
    IF key = "uuid"
    THEN IF t.content = None
         THEN Out(t, Val("item", t.uuid), NoExc, <<>>)
         ELSE Out(t, Val("item", t.content.items["uuid"]), NoExc, <<>>)
    ELSE LET r == LazyUUIDTask_refresh(t, resp) IN
         IF r.exc # NoExc THEN r
         ELSE IF key \in DOMAIN r.obj.content.items
              THEN Out(r.obj, Val("item", r.obj.content.items[key]), NoExc, r.calls)
              ELSE Out(r.obj, NoVal, "KeyError", r.calls)

\* __getitem__
LazyUUIDTask_getitem(t, key, resp) ==
    IF key = "uuid"
    THEN Out(t, Val("item", t.uuid), NoExc, <<>>)
    ELSE LET r == LazyUUIDTask_refresh(t, resp) IN
         IF r.exc # NoExc THEN r
         ELSE IF key \in DOMAIN r.obj.content.items
              THEN Out(r.obj, Val("item", r.obj.content.items[key]), NoExc, r.calls)
              ELSE Out(r.obj, NoVal, "KeyError", r.calls)

\* getattr(content, name, default)
GetattrDefault(content, name, default) ==
    IF content # None /\ name \in DOMAIN content.attrs
    THEN content.attrs[name]
    ELSE default

\* The properties completed, modified and saved: refresh, then getattr.
RefreshingProperty(t, name, default, resp) ==
    LET r == LazyUUIDTask_refresh(t, resp) IN
    IF r.exc # NoExc THEN r
    ELSE Out(r.obj, Val("bool", GetattrDefault(r.obj.content, name, default)),
             NoExc, r.calls)

LazyUUIDTask_completed(t, resp) == RefreshingProperty(t, "completed", FALSE, resp)
LazyUUIDTask_modified(t, resp) == RefreshingProperty(t, "modified", FALSE, resp)
LazyUUIDTask_saved(t, resp) == RefreshingProperty(t, "saved", TRUE, resp)

\* _modified_fields: getattr only, no refresh.
LazyUUIDTask_modified_fields(t) ==
    Out(t, Val("set", GetattrDefault(t.content, "_modified_fields", {})), NoExc, <<>>)

\* hash() of a UUID: a function of the UUID alone, not injective.
HashOf(u) == (u * 31) % 4

\* Mutant of __hash__: hashes the fetched content along with the UUID.
LazyUUIDTask_hash_content(t) ==
    Out(t, Val("int", HashOf(t.uuid) + (IF t.content = None THEN 0 ELSE 1)), NoExc, <<>>)

\* __hash__
LazyUUIDTask_hash(t) == Out(t, Val("int", HashOf(t.uuid)), NoExc, <<>>)

\* The right-hand operands of ==: another LazyUUIDTask, a dict-like record
\* (with or without a 'uuid' key), or a value that cannot be indexed.
RefOperand(r) == [kind |-> "ref", ref |-> r, rec |-> None]
RecOperand(rec) == [kind |-> "record", ref |-> "a", rec |-> rec]
IntOperand == [kind |-> "int", ref |-> "a", rec |-> None]
EqOperands == {RefOperand(r) : r \in RefIds} \cup
              {RecOperand(rec) : rec \in {MkRecord(u, FALSE) : u \in Ids} \cup {NoIdRecord}} \cup
              {IntOperand}

\* other['uuid'] for an operand of ==
OperandUuid(rs, oth, resp) ==
    CASE oth.kind = "ref" -> LazyUUIDTask_getitem(rs[oth.ref], "uuid", resp)
      [] oth.kind = "record" ->
            IF "uuid" \in DOMAIN oth.rec.items
            THEN Out(oth, Val("item", oth.rec.items["uuid"]), NoExc, <<>>)
            ELSE Out(oth, NoVal, "KeyError", <<>>)
      [] OTHER -> Out(oth, NoVal, "TypeError", <<>>)

\* __eq__: try: return self['uuid'] == other['uuid'] / except KeyError: False
LazyUUIDTask_eq(rs, t, oth, resp) ==
    LET l == LazyUUIDTask_getitem(t, "uuid", resp)
        r == OperandUuid(rs, oth, resp) IN
    IF r.exc = NoExc
    THEN Out(l.obj, Val("bool", l.val.v = r.val.v), NoExc, l.calls \o r.calls)
    ELSE IF r.exc = "KeyError"
         THEN Out(l.obj, Val("bool", FALSE), NoExc, l.calls \o r.calls)
         ELSE Out(l.obj, NoVal, r.exc, l.calls \o r.calls)

\* ---------------------------------------------------- LazyUUIDTaskSet
Sep == 0    \* the ' ' of ' '.join(...): a token that is no UUID

\* An object is its class and its __dict__ (attribute name -> value).
LazyCls == "LazyUUIDTaskSet"
QuerySetCls == "TaskQuerySet"

\* set(uuids) of a list of UUIDs, and a list that lists a set of UUIDs.
SetOf(uuids) == {uuids[i] : i \in DOMAIN uuids}
AsList(X) == CHOOSE l \in [1..Cardinality(X) -> X] : SetOf(l) = X

\* __init__: self._tw = tw; self._uuids = set(uuids)
LazyUUIDTaskSet_init(uuids) ==
    [cls |-> LazyCls, dict |-> [_tw |-> {}, _uuids |-> uuids]]

\* What tw.tasks.filter(query) returns: a TaskQuerySet holding the query.
TaskQuerySet(query) == [cls |-> QuerySetCls, dict |-> [filter_obj |-> query]]

IsLazy(s) == s.cls = LazyCls

\* The orders in which a Python set of UUIDs can be iterated.
Orders(X) == {f \in [1..Cardinality(X) -> X] : \A i, j \in DOMAIN f : f[i] = f[j] => i = j}

\* sep.join(seq)
RECURSIVE Join(_, _)
Join(seq, sep) ==
    IF Len(seq) = 0 THEN <<>>
    ELSE IF Len(seq) = 1 THEN <<seq[1]>>
    ELSE <<seq[1], sep>> \o Join(Tail(seq), sep)

\* What tw.tasks.filter can do: raise, or return a query set.
FilterResponses == {[ok |-> FALSE], [ok |-> TRUE]}

\* Mutant of refresh: the query set is fetched but self is not replaced.
LazyUUIDTaskSet_refresh_noswap(s, order, fresp) ==
    IF fresp.ok
    THEN Out(s, NoVal, NoExc, <<Call("filter", Join(order, Sep))>>)
    ELSE Out(s, NoVal, "BackendError", <<Call("filter", Join(order, Sep))>>)

\* Mutant of refresh: the UUIDs are joined with nothing between them.
LazyUUIDTaskSet_refresh_unspaced(s, order, fresp) ==
    IF fresp.ok
    THEN Out(TaskQuerySet(order), NoVal, NoExc, <<Call("filter", order)>>)
    ELSE Out(s, NoVal, "BackendError", <<Call("filter", order)>>)

\* Mutant of refresh: the class is replaced, the __dict__ is not.
LazyUUIDTaskSet_refresh_classonly(s, order, fresp) ==
    IF fresp.ok
    THEN Out([cls |-> QuerySetCls, dict |-> s.dict], NoVal, NoExc,
             <<Call("filter", Join(order, Sep))>>)
    ELSE Out(s, NoVal, "BackendError", <<Call("filter", Join(order, Sep))>>)

\* refresh: replacement = tw.tasks.filter(' '.join(self._uuids));
\* self.__class__ = replacement.__class__; self.__dict__ = replacement.__dict__
LazyUUIDTaskSet_refresh(s, order, fresp) ==
    LET query == Join(order, Sep)
        replacement == TaskQuerySet(query) IN
    IF fresp.ok
    THEN Out([cls |-> replacement.cls, dict |-> replacement.dict], NoVal, NoExc,
             <<Call("filter", query)>>)
    ELSE Out(s, NoVal, "BackendError", <<Call("filter", query)>>)

\* Attribute names, letter by letter; the ones TaskQuerySet has.
Names == {<<"_", "_", "x">>, <<"_", "x">>, <<"x">>, <<"y">>}
QuerySetAttrs == {<<"_", "x">>, <<"x">>}

\* str.startswith
StartsWith(name, prefix) ==
    Len(name) >= Len(prefix) /\ SubSeq(name, 1, Len(prefix)) = prefix

\* Any operation on an object that is a TaskQuerySet runs TaskQuerySet's own
\* code: the lazy layer is not involved.
Delegated(s) == Out(s, Val("delegated", 0), NoExc, <<>>)

\* getattr(self, name) on a TaskQuerySet
QuerySet_getattr(s, name) ==
    IF name \in QuerySetAttrs THEN Delegated(s)
    ELSE Out(s, NoVal, "AttributeError", <<>>)

\* Mutant of __getattr__: every missing name is looked up on the query set.
LazyUUIDTaskSet_getattr_always(s, name, order, fresp) ==
    LET r == LazyUUIDTaskSet_refresh(s, order, fresp) IN
    IF r.exc # NoExc THEN r
    ELSE LET g == QuerySet_getattr(r.obj, name) IN
         Out(g.obj, g.val, g.exc, r.calls \o g.calls)

\* __getattr__: called for a name that normal lookup does not find.
LazyUUIDTaskSet_getattr(s, name, order, fresp) ==
    IF StartsWith(name, <<"_", "_">>)
    THEN Out(s, NoVal, "AttributeError", <<>>)
    ELSE LET r == LazyUUIDTaskSet_refresh(s, order, fresp) IN
         IF r.exc # NoExc THEN r
         ELSE LET g == QuerySet_getattr(r.obj, name) IN
              Out(g.obj, g.val, g.exc, r.calls \o g.calls)

\* The elements a plain iterable may hold: a LazyUUIDTask, a dict-like value
\* without a 'uuid' key, a value that cannot be indexed.
ElemRef(u) == [kind |-> "ref", uuid |-> u, content |-> None]
ElemNoId == [kind |-> "dict", uuid |-> 0, content |-> None]
ElemInt == [kind |-> "int", uuid |-> 0, content |-> None]
Elements == {ElemRef(u) : u \in Ids} \cup {ElemNoId, ElemInt}

\* The operands: a LazyUUIDTaskSet (not materialized), a list, or a value
\* that cannot be iterated.
SetOperand(X) == [kind |-> "lazyset", obj |-> LazyUUIDTaskSet_init(X), elems |-> <<>>]
ListOperand(es) == [kind |-> "list", obj |-> LazyUUIDTaskSet_init({}), elems |-> es]
NonIterable == [kind |-> "int", obj |-> LazyUUIDTaskSet_init({}), elems |-> <<>>]
Lists == UNION {[1..n -> Elements] : n \in 0..MaxOther}
Operands == {SetOperand(X) : X \in SUBSET Ids} \cup {ListOperand(es) : es \in Lists}
            \cup {NonIterable}

\* Mutant of __iter__: yields the tasks themselves, fetched one by one.
LazyUUIDTaskSet_iter_fetched(s, order) ==
    [i \in 1..Len(order) |->
        [kind |-> "ref", uuid |-> order[i], content |-> MkRecord(order[i], FALSE)]]

\* __iter__: for uuid in self._uuids: yield LazyUUIDTask(self._tw, uuid)
LazyUUIDTaskSet_iter(s, order) ==
    [i \in 1..Len(order) |->
        LET t == LazyUUIDTask_init(order[i]) IN
        [kind |-> "ref", uuid |-> t.uuid, content |-> t.content]]

\* iter(other): the elements, or TypeError
Iterate(o, order) ==
    CASE o.kind = "lazyset" -> [exc |-> NoExc, elems |-> LazyUUIDTaskSet_iter(o.obj, order)]
      [] o.kind = "list" -> [exc |-> NoExc, elems |-> o.elems]
      [] OTHER -> [exc |-> "TypeError", elems |-> <<>>]

\* t['uuid'] for one element: the element afterwards, the value, the
\* exception, the backend calls.
ElemUuid(e, resp) ==
    CASE e.kind = "ref" ->
            LET o == LazyUUIDTask_getitem([uuid |-> e.uuid, content |-> e.content],
                                          "uuid", resp) IN
            [elem |-> [e EXCEPT !.content = o.obj.content],
             val |-> IF o.exc = NoExc THEN o.val.v ELSE 0, exc |-> o.exc, calls |-> o.calls]
      [] e.kind = "dict" -> [elem |-> e, val |-> 0, exc |-> "KeyError", calls |-> <<>>]
      [] OTHER -> [elem |-> e, val |-> 0, exc |-> "TypeError", calls |-> <<>>]

\* The calls of the first n outcomes, in order.
RECURSIVE ConcatCalls(_, _)
ConcatCalls(outs, n) ==
    IF n = 0 THEN <<>> ELSE ConcatCalls(outs, n - 1) \o outs[n].calls

\* set(t['uuid'] for t in elems), element by element until one raises
\* (outs: what t['uuid'] gives for each element; stop: the last one reached).
UuidsUpTo(elems, outs, stop, exc) ==
    [ids |-> IF exc = NoExc THEN {outs[i].val : i \in DOMAIN elems} ELSE {},
     exc |-> exc,
     calls |-> ConcatCalls(outs, stop),
     elems |-> [i \in DOMAIN elems |-> IF i <= stop THEN outs[i].elem ELSE elems[i]]]

UuidsFrom(elems, resp) ==
    Only({ Only({ IF bad = {}
                  THEN UuidsUpTo(elems, outs, Len(elems), NoExc)
                  ELSE Only({UuidsUpTo(elems, outs, stop, outs[stop].exc) :
                             stop \in {i \in bad : \A j \in bad : i <= j}})
                  : bad \in {{i \in DOMAIN elems : outs[i].exc # NoExc}} })
           : outs \in {[i \in DOMAIN elems |-> ElemUuid(elems[i], resp)]} })

\* What extracting the UUIDs gave, and the operand afterwards.
Extracted(o, x) ==
    [ids |-> x.ids, exc |-> x.exc, calls |-> x.calls,
     operand |-> IF o.kind = "list" THEN [o EXCEPT !.elems = x.elems] ELSE o]

\* set(t['uuid'] for t in other): the UUIDs, the exception, the calls and
\* the operand afterwards.
OtherUuids(o, order, resp) ==
    Only({ IF it.exc # NoExc
           THEN [ids |-> {}, exc |-> it.exc, calls |-> <<>>, operand |-> o]
           ELSE Only({Extracted(o, x) : x \in {UuidsFrom(it.elems, resp)}})
           : it \in {Iterate(o, order)} })

\* The outcome of a set operation: as Out, and the operand afterwards.
SetOut(obj, val, exc, calls, operand) ==
    [obj |-> obj, val |-> val, exc |-> exc, calls |-> calls, operand |-> operand]

\* The shape shared by the operations that compute on self._uuids and the
\* UUIDs of other (x: what extracting them gave): the exception of the
\* extraction, or the value computed from the two sets.
Binary(s, x, val) ==
    IF x.exc # NoExc
    THEN SetOut(s, NoVal, x.exc, x.calls, x.operand)
    ELSE SetOut(s, val, NoExc, x.calls, x.operand)

NewSet(X) == Val("lazyset", LazyUUIDTaskSet_init(X))

\* Mutant of __eq__: true as soon as self holds every UUID of other.
EqValue_subset(mine, theirs) == Val("bool", theirs \subseteq mine)

\* __eq__: set(t['uuid'] for t in other) == self._uuids
EqValue(mine, theirs) == Val("bool", theirs = mine)
LazyUUIDTaskSet_eq(s, o, order, resp) ==
    Only({Binary(s, x, EqValue(s.dict._uuids, x.ids)) : x \in {OtherUuids(o, order, resp)}})

\* __ne__: not (self == other)
NeValue(mine, theirs) == Val("bool", ~EqValue(mine, theirs).v)
LazyUUIDTaskSet_ne(s, o, order, resp) ==
    Only({Binary(s, x, NeValue(s.dict._uuids, x.ids)) : x \in {OtherUuids(o, order, resp)}})

\* union, intersection, difference, symmetric_difference
UnionValue(mine, theirs) == NewSet(mine \cup theirs)
LazyUUIDTaskSet_union(s, o, order, resp) ==
    Only({Binary(s, x, UnionValue(s.dict._uuids, x.ids)) : x \in {OtherUuids(o, order, resp)}})

IntersectionValue(mine, theirs) == NewSet(mine \cap theirs)
LazyUUIDTaskSet_intersection(s, o, order, resp) ==
    Only({Binary(s, x, IntersectionValue(s.dict._uuids, x.ids)) : x \in {OtherUuids(o, order, resp)}})

DifferenceValue(mine, theirs) == NewSet(mine \ theirs)
LazyUUIDTaskSet_difference(s, o, order, resp) ==
    Only({Binary(s, x, DifferenceValue(s.dict._uuids, x.ids)) : x \in {OtherUuids(o, order, resp)}})

\* Mutant of symmetric_difference: one half of it only.
SymmetricDifferenceValue_onesided(mine, theirs) == NewSet(mine \ theirs)

SymmetricDifferenceValue(mine, theirs) == NewSet((mine \ theirs) \cup (theirs \ mine))
LazyUUIDTaskSet_symmetric_difference(s, o, order, resp) ==
    Only({Binary(s, x, SymmetricDifferenceValue(s.dict._uuids, x.ids)) : x \in {OtherUuids(o, order, resp)}})

\* Mutant of __rsub__: the difference taken the other way round.
RsubValue_swapped(mine, theirs) == NewSet(mine \ theirs)

\* __rsub__: set(t['uuid'] for t in other) - self._uuids
RsubValue(mine, theirs) == NewSet(theirs \ mine)
LazyUUIDTaskSet_rsub(s, o, order, resp) ==
    Only({Binary(s, x, RsubValue(s.dict._uuids, x.ids)) : x \in {OtherUuids(o, order, resp)}})

\* __ror__: return self.union(other)
LazyUUIDTaskSet_ror(s, o, order, resp) == LazyUUIDTaskSet_union(s, o, order, resp)

\* The outcome of an operation that takes one task: as Out, and the task
\* afterwards.
ElemOut(obj, val, exc, calls, elem) ==
    [obj |-> obj, val |-> val, exc |-> exc, calls |-> calls, elem |-> elem]

\* The shape shared by the operations that take one task (x: what
\* task['uuid'] gave): its exception, or the outcome computed from the UUID.
Unary(s, x, out) ==
    IF x.exc # NoExc
    THEN ElemOut(s, NoVal, x.exc, x.calls, x.elem)
    ELSE ElemOut(out.obj, out.val, out.exc, x.calls \o out.calls, x.elem)

\* Mutant of __contains__: true of any task once the set holds something.
ContainsValue_nonempty(uuids, u) == Val("bool", uuids # {})

\* __contains__: task['uuid'] in self._uuids
ContainsValue(uuids, u) == Val("bool", u \in uuids)
LazyUUIDTaskSet_contains(s, e, resp) ==
    Only({Unary(s, x, Out(s, ContainsValue(s.dict._uuids, x.val), NoExc, <<>>))
          : x \in {ElemUuid(e, resp)}})

\* __len__: len(self._uuids)
LazyUUIDTaskSet_len(s) == Out(s, Val("int", Cardinality(s.dict._uuids)), NoExc, <<>>)

\* task == e, for a yielded task and an element of a list: __eq__ of
\* LazyUUIDTask, with the element as its right-hand operand.
TaskEqElem(t, e, resp) ==
    LazyUUIDTask_eq([r \in RefIds |-> [uuid |-> e.uuid, content |-> e.content]],
                    [uuid |-> t.uuid, content |-> t.content],
                    CASE e.kind = "ref" -> RefOperand("a")
                      [] e.kind = "dict" -> RecOperand(NoIdRecord)
                      [] OTHER -> IntOperand,
                    resp)

\* task in a list: the elements are compared one by one until one is equal
\* or a comparison raises (outs: what each comparison gives).
ListContains(outs) ==
    Only({ IF stops = {} THEN [val |-> FALSE, exc |-> NoExc, calls |-> ConcatCalls(outs, Len(outs))]
           ELSE Only({ [val |-> outs[i].exc = NoExc, exc |-> outs[i].exc,
                        calls |-> ConcatCalls(outs, i)]
                       : i \in {k \in stops : \A j \in stops : k <= j} })
           : stops \in {{i \in DOMAIN outs : outs[i].exc # NoExc \/ outs[i].val.v}} })

\* task in other: __contains__ of a LazyUUIDTaskSet, the scan of a list,
\* TypeError for a value that is no container.
TaskIn(t, o, resp) ==
    CASE o.kind = "lazyset" ->
            Only({[val |-> c.exc = NoExc /\ c.val.v, exc |-> c.exc, calls |-> c.calls]
                  : c \in {LazyUUIDTaskSet_contains(o.obj, t, resp)}})
      [] o.kind = "list" ->
            ListContains([i \in DOMAIN o.elems |-> TaskEqElem(t, o.elems[i], resp)])
      [] OTHER -> [val |-> FALSE, exc |-> "TypeError", calls |-> <<>>]

\* Mutant of all(): any().
AllValue_any(ins) == Val("bool", \E i \in DOMAIN ins : ins[i].val)

\* all([...]) of a list of answers
AllValue(ins) == Val("bool", \A i \in DOMAIN ins : ins[i].val)

\* [f(task) for task in ...]: the answers one by one until one raises, then
\* all() of them.
AllOf(s, o, ins) ==
    Only({ IF bad = {}
           THEN SetOut(s, AllValue(ins), NoExc, ConcatCalls(ins, Len(ins)), o)
           ELSE Only({ SetOut(s, NoVal, ins[i].exc, ConcatCalls(ins, i), o)
                       : i \in {k \in bad : \A j \in bad : k <= j} })
           : bad \in {{i \in DOMAIN ins : ins[i].exc # NoExc}} })

\* issubset: all([task in other for task in self])
LazyUUIDTaskSet_issubset(s, o, order, resp) ==
    Only({ AllOf(s, o, [i \in DOMAIN tasks |-> TaskIn(tasks[i], o, resp)])
           : tasks \in {LazyUUIDTaskSet_iter(s, order)} })

\* issuperset: all([task in self for task in other])
LazyUUIDTaskSet_issuperset(s, o, order, resp) ==
    Only({ IF it.exc # NoExc
           THEN SetOut(s, NoVal, it.exc, <<>>, o)
           ELSE AllOf(s, o, [i \in DOMAIN it.elems |->
                    Only({[val |-> c.exc = NoExc /\ c.val.v, exc |-> c.exc, calls |-> c.calls]
                          : c \in {LazyUUIDTaskSet_contains(s, it.elems[i], resp)}})])
           : it \in {Iterate(o, order)} })

\* __le__: return self.issubset(other); __ge__: return self.issuperset(other)
LazyUUIDTaskSet_le(s, o, order, resp) == LazyUUIDTaskSet_issubset(s, o, order, resp)
LazyUUIDTaskSet_ge(s, o, order, resp) == LazyUUIDTaskSet_issuperset(s, o, order, resp)

\* self._uuids replaced by what a set method made of it
WithUuids(s, uuids) == [s EXCEPT !.dict._uuids = uuids]

\* set.add, set.remove (KeyError for a missing element), set.pop (KeyError
\* for an empty set, else the element u that the set gives up), set.clear
SetAdd(s, u) == Out(WithUuids(s, s.dict._uuids \cup {u}), NoVal, NoExc, <<>>)

\* Mutant of set.remove: set.discard, silent for a missing element.
SetRemove_discard(s, u) == Out(WithUuids(s, s.dict._uuids \ {u}), NoVal, NoExc, <<>>)

SetRemove(s, u) ==
    IF u \in s.dict._uuids
    THEN Out(WithUuids(s, s.dict._uuids \ {u}), NoVal, NoExc, <<>>)
    ELSE Out(s, NoVal, "KeyError", <<>>)

\* add: self._uuids.add(task['uuid'])
LazyUUIDTaskSet_add(s, e, resp) ==
    Only({Unary(s, x, SetAdd(s, x.val)) : x \in {ElemUuid(e, resp)}})

\* remove: self._uuids.remove(task['uuid'])
LazyUUIDTaskSet_remove(s, e, resp) ==
    Only({Unary(s, x, SetRemove(s, x.val)) : x \in {ElemUuid(e, resp)}})

\* pop: return self._uuids.pop()
LazyUUIDTaskSet_pop(s, u) ==
    IF s.dict._uuids = {}
    THEN Out(s, NoVal, "KeyError", <<>>)
    ELSE Out(WithUuids(s, s.dict._uuids \ {u}), Val("uuid", u), NoExc, <<>>)

\* clear: self._uuids.clear()
LazyUUIDTaskSet_clear(s) == Out(WithUuids(s, {}), NoVal, NoExc, <<>>)

\* The shape shared by the in-place operations: self._uuids OP= the UUIDs of
\* other (x: what extracting them gave), then return self.
InPlace(s, x, uuids) ==
    IF x.exc # NoExc
    THEN SetOut(s, NoVal, x.exc, x.calls, x.operand)
    ELSE SetOut(WithUuids(s, uuids), Val("self", 0), NoExc, x.calls, x.operand)

\* update, intersection_update, difference_update,
\* symmetric_difference_update
LazyUUIDTaskSet_update(s, o, order, resp) ==
    Only({InPlace(s, x, s.dict._uuids \cup x.ids) : x \in {OtherUuids(o, order, resp)}})

LazyUUIDTaskSet_intersection_update(s, o, order, resp) ==
    Only({InPlace(s, x, s.dict._uuids \cap x.ids) : x \in {OtherUuids(o, order, resp)}})

LazyUUIDTaskSet_difference_update(s, o, order, resp) ==
    Only({InPlace(s, x, s.dict._uuids \ x.ids) : x \in {OtherUuids(o, order, resp)}})

LazyUUIDTaskSet_symmetric_difference_update(s, o, order, resp) ==
    Only({InPlace(s, x, (s.dict._uuids \ x.ids) \cup (x.ids \ s.dict._uuids))
          : x \in {OtherUuids(o, order, resp)}})

\* ---------------------------------------------------- LazyUUIDTask calls
Ret(op, self, arg, o) ==
    [op |-> op, self |-> self, arg |-> arg, val |-> o.val, exc |-> o.exc,
     calls |-> o.calls]

NoOperand == IntOperand
KeyArg(key) == [kind |-> key, ref |-> "a", rec |-> None]

\* One method call on the reference r with outcome o.
Apply(r, op, arg, o) ==
    /\ getCalls[r] + Len(o.calls) <= MaxCalls
    /\ refs' = [refs EXCEPT ![r] = o.obj]
    /\ getCalls' = [getCalls EXCEPT ![r] = @ + Len(o.calls)]
    /\ ret' = Ret(op, r, arg, o)
    /\ UNCHANGED <<setVars, heapVars, threadVars>>

GetItem(r) ==
    \E key \in Keys, resp \in GetResponses(refs[r].uuid) :
        Apply(r, "getitem", KeyArg(key), LazyUUIDTask_getitem(refs[r], key, resp))

Completed(r) ==
    \E resp \in GetResponses(refs[r].uuid) :
        Apply(r, "completed", NoOperand, LazyUUIDTask_completed(refs[r], resp))

Modified(r) ==
    \E resp \in GetResponses(refs[r].uuid) :
        Apply(r, "modified", NoOperand, LazyUUIDTask_modified(refs[r], resp))

Saved(r) ==
    \E resp \in GetResponses(refs[r].uuid) :
        Apply(r, "saved", NoOperand, LazyUUIDTask_saved(refs[r], resp))

ModifiedFields(r) ==
    Apply(r, "_modified_fields", NoOperand, LazyUUIDTask_modified_fields(refs[r]))

Hash(r) == Apply(r, "hash", NoOperand, LazyUUIDTask_hash(refs[r]))

Eq(r) ==
    \E oth \in EqOperands, resp \in GetResponses(refs[r].uuid) :
        Apply(r, "eq", oth, LazyUUIDTask_eq(refs, refs[r], oth, resp))

Refresh(r) ==
    \E resp \in GetResponses(refs[r].uuid) :
        Apply(r, "refresh", NoOperand, LazyUUIDTask_refresh(refs[r], resp))

InitRet == [op |-> "init", self |-> "a", arg |-> NoOperand, val |-> NoVal,
            exc |-> NoExc, calls |-> <<>>]

Init ==
    /\ refs \in [RefIds -> {LazyUUIDTask_init(u) : u \in Ids}]
    /\ getCalls = [r \in RefIds |-> 0]
    /\ ret = InitRet
    /\ lset = LazyUUIDTaskSet_init({})
    /\ other = NonIterable
    /\ built = <<>>
    /\ InitHeapless
    /\ InitThreadless

Next ==
    \/ \E r \in RefIds : GetItem(r)
    \/ \E r \in RefIds : Completed(r)
    \/ \E r \in RefIds : Modified(r)
    \/ \E r \in RefIds : Saved(r)
    \/ \E r \in RefIds : ModifiedFields(r)
    \/ \E r \in RefIds : Hash(r)
    \/ \E r \in RefIds : Eq(r)
    \/ \E r \in RefIds : Refresh(r)

Spec == Init /\ [][Next]_vars

\* ---------------------------------------------------- LazyUUIDTaskSet calls
SetRet(op, name, o, isLazy) ==
    [op |-> op, self |-> "lset", arg |-> name, val |-> o.val, exc |-> o.exc,
     calls |-> o.calls, lazy |-> isLazy]

NoName == <<>>

\* One call on lset; outcome holds its outcome o (o.operand: the operand
\* afterwards).
ApplySet(op, name, outcome) ==
    \E o \in outcome :
    /\ lset' = o.obj
    /\ other' = o.operand
    /\ ret' = SetRet(op, name, o, IsLazy(lset))
    /\ UNCHANGED <<built, refVars, heapVars, threadVars>>

\* The orders in which the operand is iterated, when it is a LazyUUIDTaskSet.
OperandOrders == IF other.kind = "lazyset" THEN Orders(other.obj.dict._uuids) ELSE {<<>>}

\* What tw.tasks.get would answer, were an element of the operand to ask.
ElemResponses == {[ok |-> FALSE, rec |-> None], [ok |-> TRUE, rec |-> MkRecord(1, FALSE)]}

\* A method found on the object's class: the code of LazyUUIDTaskSet while
\* the object is one, the code of TaskQuerySet afterwards.
Dispatch(lazyOutcome) ==
    IF IsLazy(lset) THEN lazyOutcome
    ELSE Only({SetOut(d.obj, d.val, d.exc, d.calls, other) : d \in {Delegated(lset)}})

Getattr ==
    \E name \in Names, fresp \in FilterResponses :
        \E order \in (IF IsLazy(lset) THEN Orders(lset.dict._uuids) ELSE {<<>>}) :
            ApplySet("getattr", name,
                     {SetOut(o.obj, o.val, o.exc, o.calls, other) :
                        o \in {IF IsLazy(lset)
                               THEN LazyUUIDTaskSet_getattr(lset, name, order, fresp)
                               ELSE QuerySet_getattr(lset, name)}})

SetEq ==
    \E order \in OperandOrders, resp \in ElemResponses :
        ApplySet("eq", NoName,
                 {Dispatch(LazyUUIDTaskSet_eq(lset, other, order, resp))})

SetNe ==
    \E order \in OperandOrders, resp \in ElemResponses :
        ApplySet("ne", NoName,
                 {Dispatch(LazyUUIDTaskSet_ne(lset, other, order, resp))})

Union ==
    \E order \in OperandOrders, resp \in ElemResponses :
        ApplySet("union", NoName,
                 {Dispatch(LazyUUIDTaskSet_union(lset, other, order, resp))})

Intersection ==
    \E order \in OperandOrders, resp \in ElemResponses :
        ApplySet("intersection", NoName,
                 {Dispatch(LazyUUIDTaskSet_intersection(lset, other, order, resp))})

Difference ==
    \E order \in OperandOrders, resp \in ElemResponses :
        ApplySet("difference", NoName,
                 {Dispatch(LazyUUIDTaskSet_difference(lset, other, order, resp))})

SymmetricDifference ==
    \E order \in OperandOrders, resp \in ElemResponses :
        ApplySet("symmetric_difference", NoName,
                 {Dispatch(LazyUUIDTaskSet_symmetric_difference(lset, other, order, resp))})

Rsub ==
    \E order \in OperandOrders, resp \in ElemResponses :
        ApplySet("rsub", NoName,
                 {Dispatch(LazyUUIDTaskSet_rsub(lset, other, order, resp))})

Ror ==
    \E order \in OperandOrders, resp \in ElemResponses :
        ApplySet("ror", NoName,
                 {Dispatch(LazyUUIDTaskSet_ror(lset, other, order, resp))})

InitSetRet == [op |-> "init", self |-> "lset", arg |-> NoName, val |-> NoVal,
               exc |-> NoExc, calls |-> <<>>, lazy |-> TRUE]

\* The LazyUUIDTaskSet under test is built from any set of UUIDs; the
\* caller holds any operand.
InitSet ==
    /\ \E X \in SUBSET Ids : lset = LazyUUIDTaskSet_init(X) /\ built = AsList(X)
    /\ other \in Operands
    /\ refs = [r \in RefIds |-> LazyUUIDTask_init(1)]
    /\ getCalls = [r \in RefIds |-> 0]
    /\ ret = InitSetRet
    /\ InitHeapless
    /\ InitThreadless

NextSet ==
    \/ Getattr
    \/ SetEq
    \/ SetNe
    \/ Union
    \/ Intersection
    \/ Difference
    \/ SymmetricDifference
    \/ Rsub
    \/ Ror

SpecSet == InitSet /\ [][NextSet]_vars

\* ------------------------------------- LazyUUIDTaskSet calls that compare
\* The orders in which lset is iterated.
SelfOrders == IF IsLazy(lset) THEN Orders(lset.dict._uuids) ELSE {<<>>}

IsSubset ==
    \E order \in SelfOrders, resp \in ElemResponses :
        ApplySet("issubset", NoName,
                 {Dispatch(LazyUUIDTaskSet_issubset(lset, other, order, resp))})

IsSuperset ==
    \E order \in OperandOrders, resp \in ElemResponses :
        ApplySet("issuperset", NoName,
                 {Dispatch(LazyUUIDTaskSet_issuperset(lset, other, order, resp))})

SetLe ==
    \E order \in SelfOrders, resp \in ElemResponses :
        ApplySet("le", NoName,
                 {Dispatch(LazyUUIDTaskSet_le(lset, other, order, resp))})

SetGe ==
    \E order \in OperandOrders, resp \in ElemResponses :
        ApplySet("ge", NoName,
                 {Dispatch(LazyUUIDTaskSet_ge(lset, other, order, resp))})

NextCmp ==
    \/ IsSubset
    \/ IsSuperset
    \/ SetLe
    \/ SetGe
    \/ SetEq
    \/ SetNe

SpecCmp == InitSet /\ [][NextCmp]_vars

\* ------------------------------------- LazyUUIDTaskSet calls that mutate
\* A call that takes one task e: what it left of lset and of the task.
ElemRet(op, e, o, isLazy) ==
    [op |-> op, self |-> "lset", arg |-> NoName, val |-> o.val, exc |-> o.exc,
     calls |-> o.calls, lazy |-> isLazy, elem |-> e, elemAfter |-> o.elem]

ApplyElem(op, e, outcome) ==
    \E o \in outcome :
    /\ lset' = o.obj
    /\ ret' = ElemRet(op, e, o, IsLazy(lset))
    /\ UNCHANGED <<other, built, refVars, heapVars, threadVars>>

\* As Dispatch, for a call that takes one task or nothing.
DispatchElem(lazyOutcome, e) ==
    IF IsLazy(lset) THEN lazyOutcome
    ELSE Only({ElemOut(d.obj, d.val, d.exc, d.calls, e) : d \in {Delegated(lset)}})

DispatchNone(lazyOutcome) ==
    Only({SetOut(d.obj, d.val, d.exc, d.calls, other)
          : d \in {IF IsLazy(lset) THEN lazyOutcome ELSE Delegated(lset)}})

Contains ==
    \E e \in Elements, resp \in ElemResponses :
        ApplyElem("contains", e, {DispatchElem(LazyUUIDTaskSet_contains(lset, e, resp), e)})

SetLen == ApplySet("len", NoName, {DispatchNone(LazyUUIDTaskSet_len(lset))})

Add ==
    \E e \in Elements, resp \in ElemResponses :
        ApplyElem("add", e, {DispatchElem(LazyUUIDTaskSet_add(lset, e, resp), e)})

Remove ==
    \E e \in Elements, resp \in ElemResponses :
        ApplyElem("remove", e, {DispatchElem(LazyUUIDTaskSet_remove(lset, e, resp), e)})

\* set.pop gives up an arbitrary element.
Pop ==
    \E u \in (IF IsLazy(lset) /\ lset.dict._uuids # {} THEN lset.dict._uuids ELSE {0}) :
        ApplySet("pop", NoName, {DispatchNone(LazyUUIDTaskSet_pop(lset, u))})

Clear == ApplySet("clear", NoName, {DispatchNone(LazyUUIDTaskSet_clear(lset))})

Update ==
    \E order \in OperandOrders, resp \in ElemResponses :
        ApplySet("update", NoName,
                 {Dispatch(LazyUUIDTaskSet_update(lset, other, order, resp))})

IntersectionUpdate ==
    \E order \in OperandOrders, resp \in ElemResponses :
        ApplySet("intersection_update", NoName,
                 {Dispatch(LazyUUIDTaskSet_intersection_update(lset, other, order, resp))})

DifferenceUpdate ==
    \E order \in OperandOrders, resp \in ElemResponses :
        ApplySet("difference_update", NoName,
                 {Dispatch(LazyUUIDTaskSet_difference_update(lset, other, order, resp))})

SymmetricDifferenceUpdate ==
    \E order \in OperandOrders, resp \in ElemResponses :
        ApplySet("symmetric_difference_update", NoName,
                 {Dispatch(LazyUUIDTaskSet_symmetric_difference_update(lset, other, order, resp))})

\* The LazyUUIDTaskSet under test is built from any set of UUIDs and is then
\* changed in place; the caller holds another LazyUUIDTaskSet, empty or of
\* one UUID, as operand.
InitMut ==
    /\ \E X \in SUBSET Ids : lset = LazyUUIDTaskSet_init(X) /\ built = AsList(X)
    /\ other \in {SetOperand({})} \cup {SetOperand({u}) : u \in Ids}
    /\ refs = [r \in RefIds |-> LazyUUIDTask_init(1)]
    /\ getCalls = [r \in RefIds |-> 0]
    /\ ret = InitSetRet
    /\ InitHeapless
    /\ InitThreadless

NextMut ==
    \/ Getattr
    \/ Contains
    \/ SetLen
    \/ Add
    \/ Remove
    \/ Pop
    \/ Clear
    \/ Update
    \/ IntersectionUpdate
    \/ DifferenceUpdate
    \/ SymmetricDifferenceUpdate

SpecMut == InitMut /\ [][NextMut]_vars

\* ------------------------- iterating a LazyUUIDTaskSet, using what it yields
\* The caller keeps the first references an iteration yields under the names
\* of RefIds; a name that holds none is Unbound.
Unbound == [uuid |-> 0, content |-> None]
Bound(r) == refs[r] # Unbound
RefSlots == CHOOSE f \in [1..Cardinality(RefIds) -> RefIds] : SetOf(f) = RefIds
Kept(yielded) ==
    [r \in RefIds |->
        Only({ IF i <= Len(yielded)
               THEN [uuid |-> yielded[i].uuid, content |-> yielded[i].content]
               ELSE Unbound
               : i \in {j \in DOMAIN RefSlots : RefSlots[j] = r} })]

\* for t in lset: the references come out in some order of the set
SetIter ==
    /\ IsLazy(lset)
    /\ \E order \in Orders(lset.dict._uuids) :
         \E yielded \in {LazyUUIDTaskSet_iter(lset, order)} :
            /\ ret' = SetRet("iter", NoName, Out(lset, Val("refs", yielded), NoExc, <<>>), TRUE)
            /\ refs' = Kept(yielded)
            /\ getCalls' = [r \in RefIds |-> 0]
    /\ UNCHANGED <<setVars, heapVars, threadVars>>

\* Calls on a reference that an iteration yielded.
YieldedGetItem(r) == Bound(r) /\ GetItem(r)
YieldedCompleted(r) == Bound(r) /\ Completed(r)
YieldedRefresh(r) == Bound(r) /\ Refresh(r)

\* The lists of UUIDs a caller constructs the LazyUUIDTaskSet from: none,
\* one, or two that may be the same.
UuidLists == {<<>>} \cup {<<u>> : u \in Ids} \cup {<<u, v>> : u, v \in Ids}

InitIter ==
    /\ built \in UuidLists
    /\ lset = LazyUUIDTaskSet_init(SetOf(built))
    /\ other = NonIterable
    /\ refs = [r \in RefIds |-> Unbound]
    /\ getCalls = [r \in RefIds |-> 0]
    /\ ret = InitSetRet
    /\ InitHeapless
    /\ InitThreadless

NextIter ==
    \/ SetIter
    \/ SetLen
    \/ Getattr
    \/ \E r \in RefIds : YieldedGetItem(r)
    \/ \E r \in RefIds : YieldedCompleted(r)
    \/ \E r \in RefIds : YieldedRefresh(r)

SpecIter == InitIter /\ [][NextIter]_vars

\* ------------------------------- the set objects behind LazyUUIDTaskSets
\* x and y are LazyUUIDTaskSets constructed from the caller's collection
\* built; r is the LazyUUIDTaskSet the last union, intersection, difference
\* or symmetric_difference returned.  heap and ptr say which Python set
\* object each of them holds in _uuids.
World == [heap |-> heap, ptr |-> ptr]
Referenced(p) == {p[n] : n \in PtrNames} \ {Null}

\* The identity of a new set object: one that no name refers to (n is the
\* name that is about to refer to it).
Fresh(p, n) ==
    IF n \notin {p[m] : m \in PtrNames \ {n}} THEN n
    ELSE CHOOSE o \in ObjIds \ PtrNames : o \notin Referenced(p)
Temp(p) == CHOOSE o \in ObjIds \ PtrNames : o \notin Referenced(p)

\* A set object that no name refers to is gone.
Collect(w) ==
    [heap |-> [o \in ObjIds |-> IF o \in Referenced(w.ptr) THEN w.heap[o] ELSE {}],
     ptr |-> w.ptr]

\* Mutant of __init__: self._uuids = uuids, the caller's object itself.
HeapInit_shared(w, n, a) == Collect([heap |-> w.heap, ptr |-> [w.ptr EXCEPT ![n] = a]])

\* __init__, for the LazyUUIDTaskSet n and the set object a handed to it:
\* self._uuids = set(uuids), a new set object with the elements of a.
HeapInit(w, n, a) ==
    Only({ Collect([heap |-> [w.heap EXCEPT ![f] = w.heap[a]],
                    ptr |-> [w.ptr EXCEPT ![n] = f]])
           : f \in {Fresh(w.ptr, n)} })

\* LazyUUIDTaskSet(self._tw, self._uuids OP set(...)): the set expression is
\* a new set object, which goes to __init__.
HeapNew(w, n, uuids) ==
    Only({ HeapInit([heap |-> [w.heap EXCEPT ![t] = uuids], ptr |-> w.ptr], n, t)
           : t \in {Temp(w.ptr)} })

\* self._uuids OP= set(...), self._uuids.add(...) and the like: the set
\* object is changed in place.
HeapStore(w, n, uuids) == [heap |-> [w.heap EXCEPT ![w.ptr[n]] = uuids], ptr |-> w.ptr]

\* The LazyUUIDTaskSet n as the methods see it, and as an operand.
ObjAt(n) == LazyUUIDTaskSet_init(heap[ptr[n]])
OperandAt(n) == SetOperand(heap[ptr[n]])

PureOps == {"union", "intersection", "difference", "symmetric_difference"}
InPlaceOps == {"update", "intersection_update", "difference_update",
               "symmetric_difference_update"}

PureOutcome(op, s, o, order, resp) ==
    CASE op = "union" -> LazyUUIDTaskSet_union(s, o, order, resp)
      [] op = "intersection" -> LazyUUIDTaskSet_intersection(s, o, order, resp)
      [] op = "difference" -> LazyUUIDTaskSet_difference(s, o, order, resp)
      [] OTHER -> LazyUUIDTaskSet_symmetric_difference(s, o, order, resp)

InPlaceOutcome(op, s, o, order, resp) ==
    CASE op = "update" -> LazyUUIDTaskSet_update(s, o, order, resp)
      [] op = "intersection_update" -> LazyUUIDTaskSet_intersection_update(s, o, order, resp)
      [] op = "difference_update" -> LazyUUIDTaskSet_difference_update(s, o, order, resp)
      [] OTHER -> LazyUUIDTaskSet_symmetric_difference_update(s, o, order, resp)

AliasRet(op, self, arg, val, exc) ==
    [op |-> op, self |-> self, arg |-> arg, val |-> val, exc |-> exc]

\* One step on the set objects: the world afterwards and what came out.
ApplyAlias(w, r) ==
    /\ heap' = w.heap
    /\ ptr' = w.ptr
    /\ ret' = r
    /\ UNCHANGED <<refVars, setVars, threadVars>>

\* n = LazyUUIDTaskSet(tw, built)
Construct(n) ==
    ApplyAlias(HeapInit(World, n, ptr["built"]),
               AliasRet("init", n, "built", Val("lazyset", n), NoExc))

\* r = a.union(b) and the like (b is iterated in one order here: NextSet
\* goes through all of them)
AliasPure(a, b) ==
    \E op \in PureOps, order \in {AsList(heap[ptr[b]])}, resp \in ElemResponses :
        \E o \in {PureOutcome(op, ObjAt(a), OperandAt(b), order, resp)} :
            ApplyAlias(HeapNew(World, "r", o.val.v.dict._uuids),
                       AliasRet(op, a, b, Val("lazyset", "r"), o.exc))

\* a.update(b) and the like
AliasInPlace(a, b) ==
    \E op \in InPlaceOps, order \in {AsList(heap[ptr[b]])}, resp \in ElemResponses :
        \E o \in {InPlaceOutcome(op, ObjAt(a), OperandAt(b), order, resp)} :
            ApplyAlias(HeapStore(World, a, o.obj.dict._uuids),
                       AliasRet(op, a, b, o.val, o.exc))

AliasAdd(n) ==
    /\ ptr[n] # Null
    /\ \E u \in Ids, resp \in ElemResponses :
        \E o \in {LazyUUIDTaskSet_add(ObjAt(n), ElemRef(u), resp)} :
            ApplyAlias(HeapStore(World, n, o.obj.dict._uuids),
                       AliasRet("add", n, Null, o.val, o.exc))

AliasRemove(n) ==
    /\ ptr[n] # Null
    /\ \E u \in Ids, resp \in ElemResponses :
        \E o \in {LazyUUIDTaskSet_remove(ObjAt(n), ElemRef(u), resp)} :
            ApplyAlias(HeapStore(World, n, o.obj.dict._uuids),
                       AliasRet("remove", n, Null, o.val, o.exc))

AliasClear(n) ==
    /\ ptr[n] # Null
    /\ \E o \in {LazyUUIDTaskSet_clear(ObjAt(n))} :
            ApplyAlias(HeapStore(World, n, o.obj.dict._uuids),
                       AliasRet("clear", n, Null, o.val, o.exc))

\* The caller's collection holds every UUID; x and y are constructed from it.
InitAlias ==
    /\ \E w \in {HeapInit(HeapInit([heap |-> [o \in ObjIds |-> IF o = "built" THEN Ids ELSE {}],
                                     ptr |-> [n \in PtrNames |->
                                                IF n = "built" THEN "built" ELSE Null]],
                                    "x", "built"),
                           "y", "built")} :
          heap = w.heap /\ ptr = w.ptr
    /\ ret = AliasRet("init", "y", "built", Val("lazyset", "y"), NoExc)
    /\ built = AsList(Ids)
    /\ lset = LazyUUIDTaskSet_init({})
    /\ other = NonIterable
    /\ refs = [r \in RefIds |-> LazyUUIDTask_init(1)]
    /\ getCalls = [r \in RefIds |-> 0]
    /\ InitThreadless

Peer(n) == IF n = "x" THEN "y" ELSE "x"

NextAlias ==
    \/ \E n \in {"x", "y"} : Construct(n)
    \/ \E a \in {"x", "y"} : AliasPure(a, Peer(a))
    \/ \E a \in {"x", "y"} : AliasInPlace(a, Peer(a))
    \/ \E n \in PtrNames \ {"built"} : AliasAdd(n)
    \/ \E n \in PtrNames \ {"built"} : AliasRemove(n)
    \/ \E n \in PtrNames \ {"built"} : AliasClear(n)

SpecAlias == InitAlias /\ [][NextAlias]_vars

\* ------------------------------------------- threads calling into lset
\* Two threads look attributes up on the same LazyUUIDTaskSet.  The
\* statements of __getattr__ and refresh are steps of their own: the call of
\* tw.tasks.filter, the assignment to __class__, the assignment to __dict__,
\* the final getattr.  The callers either share one lock that they hold
\* around every lookup, or use none.

\* The object has the class of the query set and still the __dict__ of the
\* LazyUUIDTaskSet.
Partial(s) == s.cls = QuerySetCls /\ "_uuids" \in DOMAIN s.dict

Acquired(t) == IF lock = NoLock THEN NoLock ELSE t
Released == IF lock = NoLock THEN NoLock ELSE Unlocked

\* getattr(self, name) answered by the class TaskQuerySet: its own answer,
\* or, run on the __dict__ of a LazyUUIDTaskSet, whatever that gives.
Resolve(s, name) ==
    IF Partial(s)
    THEN {[exc |-> e, torn |-> TRUE] : e \in {NoExc, "AttributeError"}}
    ELSE {[exc |-> QuerySet_getattr(s, name).exc, torn |-> FALSE]}

Finished(t, name, o) ==
    [Idle EXCEPT !.name = name, !.exc = o.exc, !.torn = o.torn,
                 !.calls = threads[t].calls, !.replacement = threads[t].replacement]

\* lset.name: __getattr__ is entered when the class is LazyUUIDTaskSet, and
\* raises for a name that starts with '__'.
Lookup(t) ==
    /\ threads[t].pc = "idle"
    /\ lock \in {NoLock, Unlocked}
    /\ \E name \in Names :
        IF IsLazy(lset)
        THEN IF StartsWith(name, <<"_", "_">>)
             THEN /\ threads' = [threads EXCEPT ![t] =
                                    [Idle EXCEPT !.name = name, !.exc = "AttributeError"]]
                  /\ lock' = lock
             ELSE /\ threads' = [threads EXCEPT ![t] =
                                    [Idle EXCEPT !.name = name, !.pc = "refresh"]]
                  /\ lock' = Acquired(t)
        ELSE /\ \E o \in Resolve(lset, name) :
                    threads' = [threads EXCEPT ![t] =
                                  [Idle EXCEPT !.name = name, !.exc = o.exc, !.torn = o.torn]]
             /\ lock' = lock
    /\ UNCHANGED <<refVars, setVars, ret, heapVars>>

\* replacement = self._tw.tasks.filter(' '.join(self._uuids))
CallFilter(t) ==
    /\ threads[t].pc = "refresh"
    /\ IF "_uuids" \in DOMAIN lset.dict
       THEN \E order \in Orders(lset.dict._uuids), fresp \in FilterResponses :
              \E r \in {LazyUUIDTaskSet_refresh(lset, order, fresp)} :
                IF r.exc = NoExc
                THEN /\ threads' = [threads EXCEPT ![t] =
                                       [@ EXCEPT !.pc = "swap_class", !.replacement = r.obj,
                                                 !.calls = r.calls]]
                     /\ lock' = lock
                ELSE /\ threads' = [threads EXCEPT ![t] =
                                       [@ EXCEPT !.pc = "idle", !.exc = r.exc, !.calls = r.calls]]
                     /\ lock' = Released
       ELSE /\ threads' = [threads EXCEPT ![t] =
                              [@ EXCEPT !.pc = "idle", !.exc = "AttributeError"]]
            /\ lock' = Released
    /\ UNCHANGED <<refVars, setVars, ret, heapVars>>

\* self.__class__ = replacement.__class__
SwapClass(t) ==
    /\ threads[t].pc = "swap_class"
    /\ lset' = [lset EXCEPT !.cls = threads[t].replacement.cls]
    /\ threads' = [threads EXCEPT ![t].pc = "swap_dict"]
    /\ UNCHANGED <<refVars, other, built, ret, heapVars, lock>>

\* self.__dict__ = replacement.__dict__
SwapDict(t) ==
    /\ threads[t].pc = "swap_dict"
    /\ lset' = [lset EXCEPT !.dict = threads[t].replacement.dict]
    /\ threads' = [threads EXCEPT ![t].pc = "return"]
    /\ UNCHANGED <<refVars, other, built, ret, heapVars, lock>>

\* return getattr(self, name)
Return(t) ==
    /\ threads[t].pc = "return"
    /\ \E o \in Resolve(lset, threads[t].name) :
          threads' = [threads EXCEPT ![t] = Finished(t, threads[t].name, o)]
    /\ lock' = Released
    /\ UNCHANGED <<refVars, setVars, ret, heapVars>>

InitThreads ==
    /\ \E X \in SUBSET Ids : lset = LazyUUIDTaskSet_init(X) /\ built = AsList(X)
    /\ other = NonIterable
    /\ refs = [r \in RefIds |-> LazyUUIDTask_init(1)]
    /\ getCalls = [r \in RefIds |-> 0]
    /\ ret = InitSetRet
    /\ InitHeapless
    /\ threads = [t \in Threads |-> Idle]
    /\ lock \in {NoLock, Unlocked}

NextThreads ==
    \/ \E t \in Threads : Lookup(t)
    \/ \E t \in Threads : CallFilter(t)
    \/ \E t \in Threads : SwapClass(t)
    \/ \E t \in Threads : SwapDict(t)
    \/ \E t \in Threads : Return(t)

SpecThreads == InitThreads /\ [][NextThreads]_vars

\* ================================================================ claims
\* ---- helpers of the properties
RefreshingOps == {"completed", "modified", "saved", "refresh"}
PropertyOps == {"completed", "modified", "saved", "_modified_fields"}
DefaultOf(op) == CASE op = "completed" -> Val("bool", FALSE)
                   [] op = "modified" -> Val("bool", FALSE)
                   [] op = "saved" -> Val("bool", TRUE)
                   [] OTHER -> Val("set", {})
Materialized(t) == t.content # None

\* The last call was made on a LazyUUIDTask / needs its data / fetches.
RefCall(r) == r.op \in {"getitem", "hash", "eq"} \cup RefreshingOps \cup PropertyOps
Fetches(r) == r.op \in RefreshingOps \/ (r.op = "getitem" /\ r.arg.kind # "uuid")
NeedsData(r) == Fetches(r) \/ r.op = "_modified_fields"

\* C1: on a LAZY LazySet, a non-dunder attribute lookup that the lazy layer
\* does not define issues exactly one Store.filter call whose query holds
\* every stored identifier, and when that call returns the object is the
\* returned collection; from then on every operation is answered by the
\* collection, no operation issues a Store.filter call through the lazy
\* layer, and the object is never LAZY again.
C1_MaterializeOnce ==
    [][ /\ (IsLazy(lset) /\ ret'.op = "getattr" /\ ~StartsWith(ret'.arg, <<"_", "_">>))
            => /\ Len(ret'.calls) = 1
               /\ ret'.calls[1].fn = "filter"
               /\ \A u \in lset.dict._uuids :
                     \E i \in DOMAIN ret'.calls[1].arg : ret'.calls[1].arg[i] = u
               /\ ret'.exc # "BackendError" => lset' = TaskQuerySet(ret'.calls[1].arg)
        /\ ~IsLazy(lset)
            => /\ lset' = lset
               /\ ret'.calls = <<>>
               /\ ~ret'.lazy ]_vars

\* C1 witness: a set of two identifiers was materialized by one filter call
\* and a set operation was then answered by the collection.
C1_Witness ==
    /\ ~IsLazy(lset)
    /\ Len(lset.dict.filter_obj) = 3
    /\ ret.op = "union"
    /\ ret.val = Val("delegated", 0)

\* C2: once a LazyReference holds a materialized payload, no operation clears
\* it; a successful non-id get_field, completed, modified, saved or
\* materialize leaves the reference MATERIALIZED.
C2_NeverCleared ==
    [][ /\ \A r \in RefIds : Materialized(refs[r]) => Materialized(refs'[r])
        /\ (RefCall(ret') /\ Fetches(ret') /\ ret'.exc # "NotFound")
            => Materialized(refs'[ret'.self]) ]_vars

\* C2 witness: a materialized reference whose later fetch failed.
C2_Witness ==
    /\ RefCall(ret)
    /\ ret.exc = "NotFound"
    /\ Materialized(refs[ret.self])

\* C3 (as claimed): each of completed, modified, saved and pending_changes
\* issues a Store.get for the identifier, leaves the reference MATERIALIZED
\* when the fetch returns, and returns the record's property or the default.
C3_AccessorsMaterialize ==
    (RefCall(ret) /\ ret.op \in PropertyOps)
        => /\ ret.calls = <<Call("get", refs[ret.self].uuid)>>
           /\ ret.exc = NoExc
                => /\ Materialized(refs[ret.self])
                   /\ ret.val = IF ret.op \in DOMAIN refs[ret.self].content.attrs
                                THEN Val(DefaultOf(ret.op).t,
                                         refs[ret.self].content.attrs[ret.op])
                                ELSE DefaultOf(ret.op)

\* C4 (as claimed): an equality comparison never raises.
C4_EqualsNeverRaises ==
    ret.op \in {"eq", "ne"} => ret.exc = NoExc

C6_NoDefaultWithoutFetch ==
    (RefCall(ret) /\ NeedsData(ret))
        => /\ (ret.op \in PropertyOps /\ ret.exc = NoExc /\ ret.val = DefaultOf(ret.op))
                => /\ Materialized(refs[ret.self])
                   /\ ret.op \notin DOMAIN refs[ret.self].content.attrs
           /\ ret.exc = "NotFound" => ret.val = NoVal /\ Len(ret.calls) = 1

\* C7: equals between two LazyReferences is true exactly when their
\* identifiers are the same, and references with the same identifier have the
\* same hash, whatever has been materialized; neither equals nor hash calls
\* the backend or changes a reference.
C7_IdentityOnly ==
    [][ /\ \A r1, r2 \in RefIds :
              refs[r1].uuid = refs[r2].uuid
                  => LazyUUIDTask_hash(refs[r1]).val = LazyUUIDTask_hash(refs[r2]).val
        /\ \A r \in RefIds :
              LazyUUIDTask_hash(refs'[r]).val = LazyUUIDTask_hash(refs[r]).val
        /\ (ret'.op = "eq" /\ ret'.self \in RefIds /\ ret'.arg.kind = "ref")
              => /\ ret'.exc = NoExc
                 /\ ret'.val = Val("bool", refs[ret'.self].uuid = refs[ret'.arg.ref].uuid)
                 /\ ret'.calls = <<>>
                 /\ UNCHANGED <<refs, getCalls>>
        /\ ret'.op = "hash"
              => /\ ret'.val = Val("int", HashOf(refs[ret'.self].uuid))
                 /\ ret'.calls = <<>>
                 /\ UNCHANGED <<refs, getCalls>> ]_vars

\* C7 witness: equals answered true between a materialized reference and a
\* lazy one.
C7_Witness ==
    /\ ret.op = "eq"
    /\ ret.arg = RefOperand("b")
    /\ ret.self = "a"
    /\ ret.val = Val("bool", TRUE)
    /\ Materialized(refs["a"])
    /\ ~Materialized(refs["b"])

\* C8: get_field("id") returns the identifier the reference was built from,
\* with no backend call and no change of state, before and after
\* materialization and whatever record was fetched; the identifier never
\* changes.
C8_IdWithoutBackend ==
    [][ /\ \A r \in RefIds : refs'[r].uuid = refs[r].uuid
        /\ (ret'.op = "getitem" /\ ret'.arg.kind = "uuid")
              => /\ ret'.exc = NoExc
                 /\ ret'.val = Val("item", refs[ret'.self].uuid)
                 /\ ret'.calls = <<>>
                 /\ UNCHANGED <<refs, getCalls>> ]_vars

\* C8 witness: the identifier is read from a reference whose fetched record
\* carries another identifier.
C8_Witness ==
    /\ ret.op = "getitem"
    /\ ret.arg.kind = "uuid"
    /\ Materialized(refs[ret.self])
    /\ refs[ret.self].content.items["uuid"] # refs[ret.self].uuid
    /\ ret.val = Val("item", refs[ret.self].uuid)

\* The identifiers of an operand all of whose elements have one.
HasIds(o) ==
    \/ o.kind = "lazyset"
    \/ o.kind = "list" /\ \A i \in DOMAIN o.elems : o.elems[i].kind = "ref"
IdsOf(o) ==
    IF o.kind = "lazyset" THEN o.obj.dict._uuids
    ELSE {o.elems[i].uuid : i \in DOMAIN o.elems}

\* C9: on a LAZY LazySet, union, intersection, difference and
\* symmetric_difference with a LAZY LazySet (or a collection of lazy
\* references) return a LazySet holding the mathematical union,
\* intersection, difference and symmetric difference of the identifier sets,
\* call neither Store.filter nor Store.get, and change neither operand.
C9_Algebra ==
    [][ (IsLazy(lset) /\ HasIds(other)
         /\ ret'.op \in {"union", "intersection", "difference", "symmetric_difference"})
          => LET A == lset.dict._uuids
                 B == IdsOf(other) IN
             /\ ret'.exc = NoExc
             /\ ret'.val.t = "lazyset"
             /\ IsLazy(ret'.val.v)
             /\ ret'.op = "union" => ret'.val.v.dict._uuids = A \cup B
             /\ ret'.op = "intersection" => ret'.val.v.dict._uuids = A \cap B
             /\ ret'.op = "difference" => ret'.val.v.dict._uuids = A \ B
             /\ ret'.op = "symmetric_difference"
                  => ret'.val.v.dict._uuids = {u \in A \cup B : ~(u \in A /\ u \in B)}
             /\ ret'.calls = <<>>
             /\ UNCHANGED <<lset, other, getCalls>> ]_vars

\* C9 witness: {u1,u2}.symmetric_difference({u2,u3}) = {u1,u3}.
C9_Witness ==
    /\ IsLazy(lset)
    /\ lset.dict._uuids = {1, 2}
    /\ other = SetOperand({2, 3})
    /\ ret.op = "symmetric_difference"
    /\ ret.val = NewSet({1, 3})

\* C10: for a LAZY LazySet and a plain collection of record-like values on
\* the left, reversed subtraction returns a LazySet of the collection's
\* identifiers minus the set's, reversed union one of their union; the set
\* is unchanged and the backend is not called.
C10_Reversed ==
    [][ (IsLazy(lset) /\ other.kind = "list" /\ HasIds(other)
         /\ ret'.op \in {"rsub", "ror"})
          => /\ ret'.exc = NoExc
             /\ ret'.val.t = "lazyset"
             /\ IsLazy(ret'.val.v)
             /\ ret'.op = "rsub"
                  => ret'.val.v.dict._uuids = IdsOf(other) \ lset.dict._uuids
             /\ ret'.op = "ror"
                  => ret'.val.v.dict._uuids = IdsOf(other) \cup lset.dict._uuids
             /\ ret'.calls = <<>>
             /\ UNCHANGED <<lset, other, getCalls>> ]_vars

\* C10 witness: [u2,u3] - {u1,u2} = {u3}, which is not {u1,u2} - [u2,u3].
C10_Witness ==
    /\ IsLazy(lset)
    /\ lset.dict._uuids = {1, 2}
    /\ other = ListOperand(<<ElemRef(2), ElemRef(3)>>)
    /\ ret.op = "rsub"
    /\ ret.val = NewSet({3})

\* ---- helpers of the properties on the mutating calls
MutatingOps == {"add", "remove", "pop", "clear"}
Uuids(s) == s.dict._uuids

\* C11: add, remove, pop and clear on a LAZY LazySet change only the
\* identifier set and make no backend call: add inserts the identifier
\* extracted from its argument, remove deletes it, pop deletes one member,
\* clear empties the set; remove of an absent identifier fails (KeyError,
\* the spec's NotFound) and pop on an empty set fails (KeyError, the spec's
\* EmptyCollection), and a failed call leaves the set unchanged.
C11_Mutation ==
    [][ (IsLazy(lset) /\ ret'.op \in MutatingOps) =>
            /\ ret'.calls = <<>>
            /\ lset' = WithUuids(lset, Uuids(lset'))
            /\ ret'.exc # NoExc => lset' = lset
            /\ (ret'.op = "add" /\ ret'.elem.kind = "ref") =>
                    /\ ret'.exc = NoExc
                    /\ Uuids(lset') = Uuids(lset) \cup {ret'.elem.uuid}
            /\ (ret'.op = "remove" /\ ret'.elem.kind = "ref") =>
                    IF ret'.elem.uuid \in Uuids(lset)
                    THEN ret'.exc = NoExc /\ Uuids(lset') = Uuids(lset) \ {ret'.elem.uuid}
                    ELSE ret'.exc = "KeyError"
            /\ ret'.op = "pop" =>
                    IF Uuids(lset) = {}
                    THEN ret'.exc = "KeyError"
                    ELSE /\ ret'.exc = NoExc
                         /\ ret'.val.v \in Uuids(lset)
                         /\ Uuids(lset') = Uuids(lset) \ {ret'.val.v}
            /\ ret'.op = "clear" => (ret'.exc = NoExc /\ Uuids(lset') = {}) ]_vars

\* C11 witness: remove of an identifier that a non-empty LAZY set does not
\* hold has failed.
C11_Witness ==
    /\ IsLazy(lset)
    /\ Uuids(lset) # {}
    /\ ret.op = "remove"
    /\ ret.elem.kind = "ref"
    /\ ret.exc = "KeyError"

\* A name that starts with two underscores.
Dunder(name) == Len(name) >= 2 /\ name[1] = "_" /\ name[2] = "_"

\* C12: on a LAZY LazySet, the lookup of a double-underscore name that the
\* lazy layer does not define fails with an attribute error, makes no
\* Store.filter call and leaves the set LAZY with its identifiers unchanged.
C12_DunderLookup ==
    [][ (IsLazy(lset) /\ ret'.op = "getattr" /\ Dunder(ret'.arg)) =>
            /\ ret'.exc = "AttributeError"
            /\ ret'.calls = <<>>
            /\ lset' = lset ]_vars

\* C12 witness: a double-underscore name was looked up on a LAZY set that
\* holds identifiers, and the set is LAZY afterwards.
C12_Witness ==
    /\ ret.op = "getattr"
    /\ Dunder(ret.arg)
    /\ ret.lazy
    /\ ret.exc = "AttributeError"
    /\ IsLazy(lset)
    /\ Uuids(lset) # {}

\* C13: on a LAZY LazySet, whatever algebra and mutation came before,
\* contains(record_like) is true exactly when the identifier of the argument
\* is in the identifier set as it stands; the answer takes no backend call
\* and materializes neither the set nor the argument.
C13_Contains ==
    [][ (IsLazy(lset) /\ ret'.op = "contains" /\ ret'.elem.kind = "ref") =>
            /\ ret'.exc = NoExc
            /\ ret'.val = Val("bool", ret'.elem.uuid \in Uuids(lset))
            /\ ret'.calls = <<>>
            /\ lset' = lset
            /\ ret'.elemAfter = ret'.elem
            /\ ret'.elemAfter.content = None ]_vars

\* C13 witness: a LAZY set that holds some identifiers and lacks others
\* answered false.
C13_Witness ==
    /\ IsLazy(lset)
    /\ Uuids(lset) # {}
    /\ ret.op = "contains"
    /\ ret.elem.kind = "ref"
    /\ ret.val = Val("bool", FALSE)

C15_SubsetSuperset ==
    [][ (IsLazy(lset) /\ HasIds(other)) =>
            /\ ret'.op \in {"issubset", "le"} =>
                    /\ ret'.exc = NoExc
                    /\ ret'.val = Val("bool", Uuids(lset) \subseteq IdsOf(other))
            /\ ret'.op \in {"issuperset", "ge"} =>
                    /\ ret'.exc = NoExc
                    /\ ret'.val = Val("bool", IdsOf(other) \subseteq Uuids(lset))
            /\ ret'.op \in {"issubset", "le", "issuperset", "ge"} =>
                    /\ ret'.calls = <<>>
                    /\ lset' = lset
                    /\ other' = other ]_vars

\* C15 witness: a set of two identifiers was found to be a subset of a
\* plain list of references that names both.
C15_Witness ==
    /\ IsLazy(lset)
    /\ Cardinality(Uuids(lset)) = 2
    /\ other.kind = "list"
    /\ HasIds(other)
    /\ ret.op = "issubset"
    /\ ret.val = Val("bool", TRUE)

\* C16: on a LAZY LazySet S, equals(other) is true exactly when the set of
\* identifiers extracted from the elements of other equals the identifier
\* set of S, and not-equals is its negation; the comparison makes no
\* backend call and changes neither operand.
C16_Equals ==
    [][ (IsLazy(lset) /\ HasIds(other) /\ ret'.op \in {"eq", "ne"}) =>
            /\ ret'.exc = NoExc
            /\ ret'.op = "eq" => ret'.val = Val("bool", IdsOf(other) = Uuids(lset))
            /\ ret'.op = "ne" => ret'.val = Val("bool", IdsOf(other) # Uuids(lset))
            /\ ret'.calls = <<>>
            /\ lset' = lset
            /\ other' = other ]_vars

\* C16 witness: a set was found unequal to an operand that names some but
\* not all of its identifiers.
C16_Witness ==
    /\ IsLazy(lset)
    /\ HasIds(other)
    /\ IdsOf(other) # {}
    /\ IdsOf(other) \subseteq Uuids(lset)
    /\ IdsOf(other) # Uuids(lset)
    /\ ret.op = "eq"
    /\ ret.val = Val("bool", FALSE)

\* ---- helpers of the properties on the set objects
LiveNames(p) == {n \in PtrNames : p[n] # Null}
PureUuids(op, mine, theirs) ==
    CASE op \in {"union", "update"} -> mine \cup theirs
      [] op \in {"intersection", "intersection_update"} -> mine \cap theirs
      [] op \in {"difference", "difference_update"} -> mine \ theirs
      [] OTHER -> (mine \ theirs) \cup (theirs \ mine)

\* C17: union, intersection, difference and symmetric_difference return a
\* new LazySet and leave self and the operand unchanged; the in-place forms
\* change the identifier set of self to the same result, return self and
\* leave the operand unchanged; no two LazySets, and no LazySet and the
\* collection it was built from, ever hold the same set object, so add,
\* remove and clear on one change no other.
C17_NoSharing ==
    /\ [](\A m, n \in LiveNames(ptr) : m # n => ptr[m] # ptr[n])
    /\ [][ /\ ret'.op \in PureOps =>
               /\ ret'.exc = NoExc
               /\ ret'.val = Val("lazyset", "r")
               /\ heap'[ptr'["r"]] =
                       PureUuids(ret'.op, heap[ptr[ret'.self]], heap[ptr[ret'.arg]])
               /\ \A n \in LiveNames(ptr) \ {"r"} :
                       ptr'[n] = ptr[n] /\ heap'[ptr[n]] = heap[ptr[n]]
           /\ ret'.op \in InPlaceOps =>
               /\ ret'.exc = NoExc
               /\ ret'.val = Val("self", 0)
               /\ ptr' = ptr
               /\ heap'[ptr[ret'.self]] =
                       PureUuids(ret'.op, heap[ptr[ret'.self]], heap[ptr[ret'.arg]])
               /\ \A n \in LiveNames(ptr) \ {ret'.self} : heap'[ptr[n]] = heap[ptr[n]]
           /\ ret'.op \in {"add", "remove", "clear"} =>
               /\ ptr' = ptr
               /\ \A n \in LiveNames(ptr) \ {ret'.self} : heap'[ptr[n]] = heap[ptr[n]]
         ]_vars

\* C17 witness: an identifier was added to a returned LazySet that neither
\* of the sets it came from holds, and the collection they were built from
\* still holds every identifier.
C17_Witness ==
    /\ ret.op = "add"
    /\ ret.self = "r"
    /\ \E u \in heap[ptr["r"]] : u \notin heap[ptr["x"]] \cup heap[ptr["y"]]
    /\ heap[ptr["built"]] = Ids

\* The positions of a query at which u stands.
Places(q, u) == {i \in DOMAIN q : q[i] = u}

\* C18: the query a materializing lookup passes to Store.filter is built
\* from the identifier set as it stands at that moment: every identifier
\* the set holds exactly once, single separators between them, nothing
\* else (no identifier that was removed), and the empty string for the
\* empty set.
C18_Query ==
    [][ (IsLazy(lset) /\ ret'.op = "getattr" /\ ~Dunder(ret'.arg)) =>
            /\ Len(ret'.calls) = 1
            /\ ret'.calls[1].fn = "filter"
            /\ Uuids(lset) = {} => ret'.calls[1].arg = <<>>
            /\ Uuids(lset) # {} => Len(ret'.calls[1].arg) = 2 * Cardinality(Uuids(lset)) - 1
            /\ \A i \in DOMAIN ret'.calls[1].arg :
                  IF i % 2 = 1 THEN ret'.calls[1].arg[i] \in Uuids(lset)
                  ELSE ret'.calls[1].arg[i] = Sep
            /\ \A u \in Uuids(lset) : Cardinality(Places(ret'.calls[1].arg, u)) = 1 ]_vars

\* C18 witness: a set was materialized with a query that names an
\* identifier added after construction and lacks one removed since.
C18_Witness ==
    /\ ret.op = "getattr"
    /\ ret.lazy
    /\ ~IsLazy(lset)
    /\ ret.calls # <<>>
    /\ Len(ret.calls[1].arg) > 1
    /\ \E u \in SetOf(built) : Places(ret.calls[1].arg, u) = {}
    /\ \E u \in Ids \ SetOf(built) : Places(ret.calls[1].arg, u) # {}

\* ---- helpers of the properties on the threads
Running == {t \in Threads : threads[t].pc # "idle"}
Fetched == {t \in Threads : threads[t].replacement # None}

====
